---- MODULE Spec2Model ----
\* Swing position detection (tools/python-extractors/test_position_detection.py):
\* the PositionDetector object, its two algorithms, and a caller that feeds it
\* the frames of one sequence and collects the DetectionResults, as
\* analyze_posetrack does.
\*
\* Numbers.  Angles and wrist heights are integers (whole degrees, whole
\* pixels).  A confidence is an integer number of 1/ConfidenceScale, so that
\* 1 - spine/25 and (spine - 60)/30 are exact.  video_time is carried in units
\* of 1/30 s, so that the default frameIndex / 30 is the frame index itself.
\* The angle dictionary holds the keys detect() reads (spine, wristHeight,
\* avgWristHeight); armToVertical and hip are computed and never read.
EXTENDS Integers, Sequences, FiniteSets, TLC

\* ---------------------------------------------------------------- bounds

\* detect() calls per session of a peak-algorithm (or unknown-algorithm) run
MaxCalls == 5

\* detect() calls per session of a threshold run (every spine in 0..180 each)
MaxThresholdCalls == 1

\* detect() calls per session of a long run: one more than the histories keep
MaxLongCalls == 11

\* detect() calls on each of two detectors that run side by side
MaxPairCalls == 4

\* Length of the result list and of the annotation list given to the evaluator
MaxEvalLen == 2

\* Length of the series given to find_peaks, find_valleys and smooth
MaxSeriesLen == 7

\* Keypoint coordinates are 0, 2, ..., 2 * MaxGrid
MaxGrid == 2

\* A posetrack has at most MaxFrames frames
MaxFrames == 4

\* ------------------------------------------------------------- constants

ConfidenceScale == 150

None == "None"

KnownAlgorithms == {"threshold", "peak"}

\* ------------------------------------------------------- dictionaries

EmptyDict == [k \in {} |-> 0]

\* dict.get(key, default)
Get(d, key, default) == IF key \in DOMAIN d THEN d[key] ELSE default

\* The last n elements of a list: history[-n:]
LastN(s, n) == IF Len(s) <= n THEN s ELSE SubSeq(s, Len(s) - n + 1, Len(s))

\* history[-k], k >= 1
FromEnd(s, k) == s[Len(s) - k + 1]

Min(a, b) == IF a <= b THEN a ELSE b

\* ------------------------------------------------- angles of one frame

\* compute_angles_from_keypoints: the angle dictionary detect() works on.  The
\* keypoints enter as what angle_utils derives from them: spineAngle (0 in the
\* degraded profile) and the wrist heights (found = FALSE for the None that
\* compute_wrist_heights returns when a landmark is missing).  A value that is
\* falsy (0) is left out of the dictionary.
compute_angles_from_keypoints(spineAngle, wrist_info) ==
    (IF spineAngle # 0 THEN "spine" :> spineAngle ELSE EmptyDict)
    @@ (IF wrist_info.found
        THEN "wristHeight" :> wrist_info.leftWristHeight
             @@ "avgWristHeight" :> wrist_info.avgWristHeight
        ELSE EmptyDict)

DetectionResult(frame_index, video_time, detected_position, confidence, angles, is_arm_peak, is_spine_peak) ==
    [frame_index |-> frame_index, video_time |-> video_time,
     detected_position |-> detected_position, confidence |-> confidence,
     angles |-> angles, is_arm_peak |-> is_arm_peak,
     is_spine_peak |-> is_spine_peak]

\* ------------------------------------------------------ PositionDetector

\* Faulty variant of reset: last_top_frame is initialised at construction
\* only and survives a later reset().
reset_keeps_last_top(self) ==
    [algorithm |-> self.algorithm,
     prev_arm_angle |-> 0,
     prev_spine_angle |-> 0,
     arm_angle_history |-> <<>>,
     spine_angle_history |-> <<>>,
     direction |-> "unknown",
     last_top_frame |-> IF "last_top_frame" \in DOMAIN self
                        THEN self.last_top_frame ELSE -999,
     last_bottom_frame |-> -999]

\* reset(): every history field gets its initial value; algorithm is kept.
reset(self) ==
    [algorithm |-> self.algorithm,
     prev_arm_angle |-> 0,
     prev_spine_angle |-> 0,
     arm_angle_history |-> <<>>,
     spine_angle_history |-> <<>>,
     direction |-> "unknown",
     last_top_frame |-> -999,
     last_bottom_frame |-> -999]

\* __init__: stores the selector, then reset().  No validation.
__init__(algorithm) == reset([algorithm |-> algorithm])

\* Faulty variant of the label: spine 45 falls to release
threshold_position_release_at_45(spine) ==
    IF spine < 25 THEN "top"
    ELSE IF spine > 60 THEN "bottom"
    ELSE IF spine <= 45 THEN "release"
    ELSE "connect"

\* _detect_threshold, the label
threshold_position(spine) ==
    IF spine < 25 THEN "top"
    ELSE IF spine > 60 THEN "bottom"
    ELSE IF spine < 45 THEN "release"
    ELSE "connect"

\* Faulty variant of the confidence: the bottom ramp is not capped at 1
threshold_confidence_uncapped(spine) ==
    IF spine < 25 THEN ConfidenceScale - (ConfidenceScale \div 25) * spine
    ELSE IF spine > 60 THEN (ConfidenceScale \div 30) * (spine - 60)
    ELSE ConfidenceScale \div 2

\* _detect_threshold, the confidence (in 1/ConfidenceScale)
threshold_confidence(spine) ==
    IF spine < 25 THEN ConfidenceScale - (ConfidenceScale \div 25) * spine
    ELSE IF spine > 60
         THEN Min(ConfidenceScale, (ConfidenceScale \div 30) * (spine - 60))
    ELSE IF spine < 45 THEN ConfidenceScale \div 2
    ELSE ConfidenceScale \div 2

\* Faulty variant of _detect_threshold: it remembers the spine angle and
\* reports a rise since the previous frame as a spine peak
_detect_threshold_remembering(self, frame_index, video_time, angles) ==
    LET spine == Get(angles, "spine", 0)
    IN  [self |-> [self EXCEPT !.prev_spine_angle = spine],
         result |-> DetectionResult(frame_index, video_time,
                                    threshold_position(spine),
                                    threshold_confidence(spine),
                                    angles, FALSE,
                                    spine > self.prev_spine_angle + 2)]

\* _detect_threshold: reads and writes no field of self.
_detect_threshold(self, frame_index, video_time, angles) ==
    LET spine == Get(angles, "spine", 0)
    IN  [self |-> self,
         result |-> DetectionResult(frame_index, video_time,
                                    threshold_position(spine),
                                    threshold_confidence(spine),
                                    angles, FALSE, FALSE)]

\* Keep last N frames: window = 5, both histories cut to the last window * 2
\* when the arm history has grown beyond that.
window == 5

\* Faulty variant of the truncation: the histories are never cut
keep_last_never(history, arm_history) == history

\* Faulty variant of the truncation: a full history is cut to its last 2 samples
keep_last_two(history, arm_history) ==
    IF Len(arm_history) > window * 2 THEN LastN(history, 2) ELSE history

keep_last(history, arm_history) ==
    IF Len(arm_history) > window * 2 THEN LastN(history, window * 2) ELSE history

\* Faulty variant of the 3-sample test: the window sits one sample back
\* (history[-4], history[-3], history[-2])
local_maximum_one_back(history) ==
    /\ Len(history) >= 4
    /\ FromEnd(history, 3) > FromEnd(history, 4)
    /\ FromEnd(history, 3) >= FromEnd(history, 2)

\* The 3-sample test: prev1 > prev2 and prev1 >= curr
local_maximum(history) ==
    /\ Len(history) >= 3
    /\ FromEnd(history, 2) > FromEnd(history, 3)
    /\ FromEnd(history, 2) >= FromEnd(history, 1)

\* Faulty variants of the top gate: open after more than 1 frame; open at 10
top_gate_after_one(self, frame_index) == frame_index - self.last_top_frame > 1

top_gate_at_ten(self, frame_index) == frame_index - self.last_top_frame >= 10

\* Only mark as Top if enough frames since last top
top_gate(self, frame_index) == frame_index - self.last_top_frame > 10

bottom_gate(self, frame_index) == frame_index - self.last_bottom_frame > 10

\* Faulty variant of the arm check: the flag is set only inside the gate
arm_check_flag_in_gate(self, frame_index, arm_angle_history) ==
    [is_arm_peak |-> /\ local_maximum(arm_angle_history)
                     /\ frame_index - self.last_top_frame > 10,
     accepted |-> /\ local_maximum(arm_angle_history)
                  /\ frame_index - self.last_top_frame > 10]

\* Check for arm peak (Top position): the flag, and whether the peak is
\* accepted as a top (position, confidence and last_top_frame are then set)
arm_check(self, frame_index, arm_angle_history) ==
    [is_arm_peak |-> local_maximum(arm_angle_history),
     accepted |-> /\ local_maximum(arm_angle_history)
                  /\ top_gate(self, frame_index)]

\* Faulty variant of the spine peak: a maximum of exactly 50 counts
spine_peak_from_fifty(spine_angle_history) ==
    /\ local_maximum(spine_angle_history)
    /\ FromEnd(spine_angle_history, 2) >= 50

\* A spine local maximum above the minimum threshold for bottom
spine_peak(spine_angle_history) ==
    /\ local_maximum(spine_angle_history)
    /\ FromEnd(spine_angle_history, 2) > 50

\* Check for spine peak (Bottom position), likewise
spine_check(self, frame_index, spine_angle_history) ==
    [is_spine_peak |-> spine_peak(spine_angle_history),
     accepted |-> /\ spine_peak(spine_angle_history)
                  /\ bottom_gate(self, frame_index)]

\* Faulty variant of the fallback: it does not wait for a second sample
slope_position_no_warmup(self, spine, spine_angle_history) ==
    IF spine > self.prev_spine_angle + 2 THEN "connect"
    ELSE IF spine < self.prev_spine_angle - 2 THEN "release"
    ELSE None

\* Faulty variant of the slope fallback: a change of exactly 2 counts
slope_position_from_two(self, spine, spine_angle_history) ==
    IF Len(spine_angle_history) >= 2
    THEN IF spine >= self.prev_spine_angle + 2 THEN "connect"
         ELSE IF spine <= self.prev_spine_angle - 2 THEN "release"
         ELSE None
    ELSE None

\* If not a peak, connect/release from the direction of the spine angle
slope_position(self, spine, spine_angle_history) ==
    IF Len(spine_angle_history) >= 2
    THEN IF spine > self.prev_spine_angle + 2 THEN "connect"
         ELSE IF spine < self.prev_spine_angle - 2 THEN "release"
         ELSE None
    ELSE None

\* Faulty variant of _detect_peak: a wrist peak that ends up labelled "bottom"
\* does not restart the top window
_detect_peak_top_window_kept(self, frame_index, video_time, angles) ==
    LET arm_height == Get(angles, "avgWristHeight", Get(angles, "wristHeight", 0))
        spine == Get(angles, "spine", 0)
        arm_appended == Append(self.arm_angle_history, arm_height)
        spine_appended == Append(self.spine_angle_history, spine)
        arm_angle_history == keep_last(arm_appended, arm_appended)
        spine_angle_history == keep_last(spine_appended, arm_appended)
        arm == arm_check(self, frame_index, arm_angle_history)
        bottom == spine_check(self, frame_index, spine_angle_history)
        peak_position == IF bottom.accepted THEN "bottom"
                         ELSE IF arm.accepted THEN "top" ELSE None
        position == IF peak_position = None
                    THEN slope_position(self, spine, spine_angle_history)
                    ELSE peak_position
        confidence == IF peak_position # None THEN (ConfidenceScale * 9) \div 10
                      ELSE IF position # None THEN ConfidenceScale \div 2
                      ELSE 0
    IN  [self |-> [self EXCEPT
                     !.arm_angle_history = arm_angle_history,
                     !.spine_angle_history = spine_angle_history,
                     !.last_top_frame = IF arm.accepted /\ ~bottom.accepted
                                        THEN frame_index ELSE @,
                     !.last_bottom_frame = IF bottom.accepted THEN frame_index ELSE @,
                     !.prev_arm_angle = arm_height,
                     !.prev_spine_angle = spine],
         result |-> DetectionResult(frame_index, video_time, position,
                                    confidence, angles,
                                    arm.is_arm_peak, bottom.is_spine_peak)]

\* _detect_peak.  The spine check runs after the arm check and overwrites its
\* position; the slope fallback runs only when position is still None.
_detect_peak(self, frame_index, video_time, angles) ==
    LET arm_height == Get(angles, "avgWristHeight", Get(angles, "wristHeight", 0))
        spine == Get(angles, "spine", 0)
        arm_appended == Append(self.arm_angle_history, arm_height)
        spine_appended == Append(self.spine_angle_history, spine)
        arm_angle_history == keep_last(arm_appended, arm_appended)
        spine_angle_history == keep_last(spine_appended, arm_appended)
        arm == arm_check(self, frame_index, arm_angle_history)
        bottom == spine_check(self, frame_index, spine_angle_history)
        peak_position == IF bottom.accepted THEN "bottom"
                         ELSE IF arm.accepted THEN "top" ELSE None
        position == IF peak_position = None
                    THEN slope_position(self, spine, spine_angle_history)
                    ELSE peak_position
        confidence == IF peak_position # None THEN (ConfidenceScale * 9) \div 10
                      ELSE IF position # None THEN ConfidenceScale \div 2
                      ELSE 0
    IN  [self |-> [self EXCEPT
                     !.arm_angle_history = arm_angle_history,
                     !.spine_angle_history = spine_angle_history,
                     !.last_top_frame = IF arm.accepted THEN frame_index ELSE @,
                     !.last_bottom_frame = IF bottom.accepted THEN frame_index ELSE @,
                     !.prev_arm_angle = arm_height,
                     !.prev_spine_angle = spine],
         result |-> DetectionResult(frame_index, video_time, position,
                                    confidence, angles,
                                    arm.is_arm_peak, bottom.is_spine_peak)]

\* Faulty variant of detect: an unknown selector silently runs the default
\* algorithm
detect_default_peak(self, frame_index, video_time, angles) ==
    IF self.algorithm = "threshold"
    THEN _detect_threshold(self, frame_index, video_time, angles)
         @@ [raised |-> None]
    ELSE _detect_peak(self, frame_index, video_time, angles)
         @@ [raised |-> None]

\* detect: the dispatch on the selector.  raised is the exception that leaves
\* the call; with an unknown selector no field is written and nothing returned.
detect(self, frame_index, video_time, angles) ==
    IF self.algorithm = "threshold"
    THEN _detect_threshold(self, frame_index, video_time, angles)
         @@ [raised |-> None]
    ELSE IF self.algorithm = "peak"
    THEN _detect_peak(self, frame_index, video_time, angles)
         @@ [raised |-> None]
    ELSE [self |-> self, result |-> None, raised |-> "ValueError"]

\* ------------------------------------------------------------ the caller

\* What a run feeds its detector: the selector it constructs the detector
\* with, the wrist heights, spine angles and frame-index gaps its frames are
\* drawn from, and how many frames a session has.
Profile(algorithm, arms, spines, gaps, frames) ==
    [algorithm |-> algorithm, arms |-> arms, spines |-> spines, gaps |-> gaps,
     frames |-> frames]

Profiles ==
    { \* consecutive frames, spine held at 70: one wrist-height bump after another
      Profile("peak", {0, 5, 10}, {70}, {1}, MaxCalls),
      \* consecutive frames, wrists held: the spine rises and falls around 50
      Profile("peak", {0}, {48, 50, 53}, {1}, MaxCalls),
      \* sparse frames, spine held: wrist peaks 10, 11 or 12 frames apart
      Profile("peak", {0, 5}, {70}, {5, 6}, MaxCalls),
      \* sparse frames, wrists held: spine peaks 10, 11 or 12 frames apart
      Profile("peak", {0}, {50, 53}, {5, 6}, MaxCalls),
      \* wrists and spine both move, peaks 10 frames apart
      Profile("peak", {0, 5}, {50, 53}, {5}, MaxCalls),
      \* the threshold algorithm on every whole spine angle
      Profile("threshold", {0}, 0 .. 180, {1}, MaxThresholdCalls),
      \* a long session of consecutive frames, spine held: more frames than
      \* the histories keep
      Profile("peak", {0, 5}, {70}, {1}, MaxLongCalls),
      \* a long session of consecutive frames, wrists held: the spine still
      \* rises and falls after the histories are full
      Profile("peak", {0}, {50, 53}, {1}, MaxLongCalls),
      \* a selector that names no algorithm
      Profile("median", {0}, {70}, {1}, MaxCalls) }

VARIABLES
    profile,        \* what this run feeds its detector
    pc,             \* "start": no detector yet; "ready": constructed
    self,           \* the PositionDetector object
    raised,         \* the exception the last call ended with, or None
    results,        \* the DetectionResults of the current session, in order
    calls,          \* detect() calls of the current session
    last_frame,     \* frame_index of the session's last frame, -1 before the first
    fresh,          \* a second detector, constructed when the session began
    fresh_results,  \* what fresh returned for the session's frames
    reset_after,    \* detect() calls the last reset() came after, -1: no reset yet
    args,           \* the arguments of the last call of a module-level function
    returned        \* what that call returned

vars == <<profile, pc, self, raised, results, calls, last_frame, fresh,
          fresh_results, reset_after, args, returned>>

\* No module-level function has been called
NoCall == [function |-> None]

Unconstructed == [algorithm |-> None]

Init ==
    /\ profile \in Profiles
    /\ pc = "start"
    /\ self = Unconstructed
    /\ raised = None
    /\ results = <<>>
    /\ calls = 0
    /\ last_frame = -1
    /\ fresh = Unconstructed
    /\ fresh_results = <<>>
    /\ reset_after = -1
    /\ args = NoCall
    /\ returned = None

\* detector = PositionDetector(algorithm=algorithm); results = []
Construct ==
    /\ pc = "start"
    /\ pc' = "ready"
    /\ self' = __init__(profile.algorithm)
    /\ fresh' = __init__(profile.algorithm)
    /\ UNCHANGED <<profile, raised, results, calls, last_frame, fresh_results,
                   reset_after, args, returned>>

\* One turn of the caller's loop: detector.detect(frame) on the next frame of
\* the sequence, the result appended.  The same frame goes to fresh.
Detect(gap, arm_height, spineAngle) ==
    /\ pc = "ready"
    /\ calls < profile.frames
    /\ LET frame_index == last_frame + gap
           wrist_info == [found |-> TRUE, leftWristHeight |-> arm_height,
                          avgWristHeight |-> arm_height]
           angles == compute_angles_from_keypoints(spineAngle, wrist_info)
           out == detect(self, frame_index, frame_index, angles)
           fresh_out == detect(fresh, frame_index, frame_index, angles)
       IN  /\ self' = out.self
           /\ raised' = out.raised
           /\ results' = IF out.raised = None
                         THEN Append(results, out.result) ELSE results
           /\ fresh' = fresh_out.self
           /\ fresh_results' = IF fresh_out.raised = None
                               THEN Append(fresh_results, fresh_out.result)
                               ELSE fresh_results
           /\ last_frame' = frame_index
    /\ calls' = calls + 1
    /\ UNCHANGED <<profile, pc, reset_after, args, returned>>

\* detector.reset(), and a new sequence begins; fresh is a new detector.
Reset ==
    /\ pc = "ready"
    /\ self' = reset(self)
    /\ fresh' = __init__(self.algorithm)
    /\ raised' = None
    /\ results' = <<>>
    /\ fresh_results' = <<>>
    /\ calls' = 0
    /\ last_frame' = -1
    /\ reset_after' = calls
    /\ UNCHANGED <<profile, pc, args, returned>>

Next ==
    \/ Construct
    \/ \E gap \in profile.gaps, arm_height \in profile.arms,
          spineAngle \in profile.spines : Detect(gap, arm_height, spineAngle)
    \/ Reset

Spec == Init /\ [][Next]_vars

\* ----------------------------------------------------- two detectors

\* analyze_posetrack as a function: the results of a new detector with the
\* given selector over frames[k..], each frame a frame_index, a video_time
\* and the angles of its keypoints.
RECURSIVE run_detector(_, _, _)
run_detector(detector, frames, k) ==
    IF k > Len(frames) THEN <<>>
    ELSE LET out == detect(detector, frames[k].frame_index,
                           frames[k].video_time, frames[k].angles)
         IN  <<out.result>> \o run_detector(out.self, frames, k + 1)

analyze_posetrack(frames, algorithm) ==
    run_detector(__init__(algorithm), frames, 1)

\* Faulty variant of a call on one of two detectors: the histories are lists
\* of the class, shared by every instance
detect_shared_history(detector, other, frame_index, video_time, angles) ==
    LET out == detect(detector, frame_index, video_time, angles)
    IN  [self |-> out.self,
         other |-> [other EXCEPT
                      !.arm_angle_history = out.self.arm_angle_history,
                      !.spine_angle_history = out.self.spine_angle_history],
         result |-> out.result]

\* detector.detect(...) while a second detector exists: reset() gave each
\* instance lists of its own, and detect writes the fields of self only.
detect_beside(detector, other, frame_index, video_time, angles) ==
    LET out == detect(detector, frame_index, video_time, angles)
    IN  [self |-> out.self, other |-> other, result |-> out.result]

\* What two detectors side by side are fed; the first runs the peak algorithm,
\* the second the profile's.
PairProfiles ==
    { Profile("peak", {0, 5}, {70}, {1}, MaxPairCalls),
      Profile("threshold", {0}, {20, 70}, {1}, MaxPairCalls) }

\* Two detectors constructed, nothing fed yet.  self is the first, fresh the
\* second; results and fresh_results are what each has returned.
InitPair ==
    /\ profile \in PairProfiles
    /\ pc = "pair"
    /\ self = __init__("peak")
    /\ fresh = __init__(profile.algorithm)
    /\ raised = None
    /\ results = <<>>
    /\ fresh_results = <<>>
    /\ calls = 0
    /\ last_frame = -1
    /\ reset_after = -1
    /\ args = NoCall
    /\ returned = None

\* The frame after the last one a detector was fed
NextFrame(returned_so_far, gap, arm_height, spineAngle) ==
    LET frame_index ==
            (IF returned_so_far = <<>> THEN -1
             ELSE returned_so_far[Len(returned_so_far)].frame_index) + gap
        wrist_info == [found |-> TRUE, leftWristHeight |-> arm_height,
                       avgWristHeight |-> arm_height]
    IN  [frame_index |-> frame_index, video_time |-> frame_index,
         angles |-> compute_angles_from_keypoints(spineAngle, wrist_info)]

\* The first detector processes the next frame of its own sequence
DetectFirst(gap, arm_height, spineAngle) ==
    /\ pc = "pair"
    /\ Len(results) < profile.frames
    /\ LET frame == NextFrame(results, gap, arm_height, spineAngle)
           out == detect_beside(self, fresh, frame.frame_index,
                                frame.video_time, frame.angles)
       IN  /\ self' = out.self
           /\ fresh' = out.other
           /\ results' = Append(results, out.result)
    /\ UNCHANGED <<profile, pc, raised, calls, last_frame, fresh_results,
                   reset_after, args, returned>>

\* The second detector processes the next frame of its own sequence
DetectSecond(gap, arm_height, spineAngle) ==
    /\ pc = "pair"
    /\ Len(fresh_results) < profile.frames
    /\ LET frame == NextFrame(fresh_results, gap, arm_height, spineAngle)
           out == detect_beside(fresh, self, frame.frame_index,
                                frame.video_time, frame.angles)
       IN  /\ fresh' = out.self
           /\ self' = out.other
           /\ fresh_results' = Append(fresh_results, out.result)
    /\ UNCHANGED <<profile, pc, raised, calls, last_frame, results,
                   reset_after, args, returned>>

NextPair ==
    \/ \E gap \in profile.gaps, arm_height \in profile.arms,
          spineAngle \in profile.spines : DetectFirst(gap, arm_height, spineAngle)
    \/ \E gap \in profile.gaps, arm_height \in profile.arms,
          spineAngle \in profile.spines : DetectSecond(gap, arm_height, spineAngle)

SpecPair == InitPair /\ [][NextPair]_vars

\* ------------------------------------------------------- the evaluator

Abs(x) == IF x < 0 THEN 0 - x ELSE x

\* All lists of at most n elements of S
ListsUpTo(S, n) == UNION {[1 .. k -> S] : k \in 0 .. n}

\* A set of frame indices as the list a for loop goes through.  Python fixes
\* no order for a set; ascending order is taken here, and no claim reads the
\* order of position_errors.
RECURSIVE iterate(_)
iterate(S) ==
    IF S = {} THEN <<>>
    ELSE LET least == CHOOSE x \in S : \A y \in S : x <= y
         IN  <<least>> \o iterate(S \ {least})

GroundTruth(frame_index, position) ==
    [frame_index |-> frame_index, position |-> position, notes |-> ""]

\* AlgorithmMetrics(total_frames=...)
AlgorithmMetrics(total_frames) ==
    [true_positives |-> 0, false_positives |-> 0, false_negatives |-> 0,
     total_frames |-> total_frames, position_errors |-> <<>>]

\* A float that is a ratio of counts, kept as numerator and denominator;
\* raised is the exception a division by zero ends with.
Ratio(num, den) == [raised |-> None, num |-> num, den |-> den]

Divide(num, den) ==
    IF den = 0 THEN [raised |-> "ZeroDivisionError", num |-> 0, den |-> 0]
    ELSE Ratio(num, den)

\* Faulty variant of precision: no guard for an empty denominator
precision_unguarded(metrics) ==
    Divide(metrics.true_positives,
           metrics.true_positives + metrics.false_positives)

\* AlgorithmMetrics.precision
precision(metrics) ==
    IF metrics.true_positives + metrics.false_positives = 0 THEN Ratio(0, 1)
    ELSE Divide(metrics.true_positives,
                metrics.true_positives + metrics.false_positives)

\* AlgorithmMetrics.recall
recall(metrics) ==
    IF metrics.true_positives + metrics.false_negatives = 0 THEN Ratio(0, 1)
    ELSE Divide(metrics.true_positives,
                metrics.true_positives + metrics.false_negatives)

\* AlgorithmMetrics.f1: 2 * (p * r) / (p + r), with p = a/b and r = c/d
\* that is (2ac / bd) / ((ad + cb) / bd)
f1(metrics) ==
    LET p == precision(metrics)
        r == recall(metrics)
    IN  IF p.raised # None THEN p
        ELSE IF r.raised # None THEN r
        ELSE IF p.num * r.den + r.num * p.den = 0 THEN Ratio(0, 1)
        ELSE Divide(2 * p.num * r.num * (p.den * r.den),
                    (p.den * r.den) * (p.num * r.den + r.num * p.den))

\* Faulty variant of the tolerance: one frame
within_tolerance_of_one(detected, gt) == Abs(detected - gt) <= 1

\* Allow 2 frame tolerance
within_tolerance(detected, gt) == Abs(detected - gt) <= 2

\* Faulty variant of the loop over the detections: an annotation is used up
\* by the first detection it matches
RECURSIVE detected_loop_one_to_one(_, _, _, _)
detected_loop_one_to_one(detected_frames, k, gt_frames, metrics) ==
    IF k > Len(detected_frames) THEN metrics
    ELSE LET detected == detected_frames[k]
             near == {gt \in gt_frames : within_tolerance(detected, gt)}
         IN  IF near # {}
             THEN detected_loop_one_to_one(
                      detected_frames, k + 1,
                      gt_frames \ {CHOOSE gt \in near : TRUE},
                      [metrics EXCEPT !.true_positives = @ + 1])
             ELSE detected_loop_one_to_one(
                      detected_frames, k + 1, gt_frames,
                      [metrics EXCEPT
                         !.false_positives = @ + 1,
                         !.position_errors =
                             Append(@, [type |-> "false_positive",
                                        frame |-> detected])])

\* for detected in detected_frames: a true positive if any annotation is
\* within the tolerance, else a false positive
RECURSIVE detected_loop(_, _, _, _)
detected_loop(detected_frames, k, gt_frames, metrics) ==
    IF k > Len(detected_frames) THEN metrics
    ELSE LET detected == detected_frames[k]
             matched == \E gt \in gt_frames : within_tolerance(detected, gt)
         IN  detected_loop(
                 detected_frames, k + 1, gt_frames,
                 IF matched
                 THEN [metrics EXCEPT !.true_positives = @ + 1]
                 ELSE [metrics EXCEPT
                         !.false_positives = @ + 1,
                         !.position_errors =
                             Append(@, [type |-> "false_positive",
                                        frame |-> detected])])

\* Faulty variant of the second loop: it matches within 1 frame while the
\* first loop matches within 2
RECURSIVE gt_loop_within_one(_, _, _, _)
gt_loop_within_one(gt_frames, k, detected_frames, metrics) ==
    IF k > Len(gt_frames) THEN metrics
    ELSE LET gt == gt_frames[k]
             matched == \E detected \in detected_frames :
                            Abs(detected - gt) <= 1
         IN  gt_loop_within_one(
                 gt_frames, k + 1, detected_frames,
                 IF matched THEN metrics
                 ELSE [metrics EXCEPT
                         !.false_negatives = @ + 1,
                         !.position_errors =
                             Append(@, [type |-> "false_negative",
                                        frame |-> gt])])

\* for gt in gt_frames: a false negative if no detection is within the
\* tolerance
RECURSIVE gt_loop(_, _, _, _)
gt_loop(gt_frames, k, detected_frames, metrics) ==
    IF k > Len(gt_frames) THEN metrics
    ELSE LET gt == gt_frames[k]
             matched == \E detected \in detected_frames :
                            Abs(detected - gt) <= 2
         IN  gt_loop(
                 gt_frames, k + 1, detected_frames,
                 IF matched THEN metrics
                 ELSE [metrics EXCEPT
                         !.false_negatives = @ + 1,
                         !.position_errors =
                             Append(@, [type |-> "false_negative",
                                        frame |-> gt])])

\* evaluate_algorithm(results, ground_truth, position)
evaluate_algorithm(rs, ground_truth, position) ==
    LET metrics == AlgorithmMetrics(Len(rs))
        gt_frames == {ground_truth[i].frame_index :
                        i \in {j \in 1 .. Len(ground_truth) :
                                 ground_truth[j].position = position}}
        detected_frames == {rs[i].frame_index :
                              i \in {j \in 1 .. Len(rs) :
                                       rs[j].detected_position = position}}
    IN  gt_loop(iterate(gt_frames), 1, detected_frames,
                detected_loop(iterate(detected_frames), 1, gt_frames, metrics))

\* The results and the annotations the evaluator is given
EvalResults ==
    {DetectionResult(f, f, "top", 0, EmptyDict, FALSE, FALSE) :
        f \in {8, 9, 10, 11, 20}}
    \cup {DetectionResult(10, 10, "bottom", 0, EmptyDict, FALSE, FALSE)}

EvalGroundTruth ==
    {GroundTruth(f, "top") : f \in {9, 10, 11}} \cup {GroundTruth(10, "bottom")}

\* evaluate_algorithm(results, ground_truth, position) about to be called
EvaluateCalls ==
    [function : {"evaluate_algorithm"},
     results : ListsUpTo(EvalResults, MaxEvalLen),
     ground_truth : ListsUpTo(EvalGroundTruth, MaxEvalLen),
     position : {"top", "bottom"}]

InitEvaluate ==
    /\ profile = Profile(None, {}, {}, {}, 0)
    /\ pc = "evaluate"
    /\ self = Unconstructed
    /\ fresh = Unconstructed
    /\ raised = None
    /\ results = <<>>
    /\ fresh_results = <<>>
    /\ calls = 0
    /\ last_frame = -1
    /\ reset_after = -1
    /\ args \in EvaluateCalls
    /\ returned = None

\* metrics = evaluate_algorithm(results, ground_truth, position), and the three
\* properties read as the report prints them
Evaluate ==
    /\ pc = "evaluate"
    /\ LET metrics == evaluate_algorithm(args.results, args.ground_truth,
                                         args.position)
       IN  returned' = [metrics |-> metrics,
                        precision |-> precision(metrics),
                        recall |-> recall(metrics),
                        f1 |-> f1(metrics)]
    /\ pc' = "evaluated"
    /\ UNCHANGED <<profile, self, raised, results, calls, last_frame,
                   fresh, fresh_results, reset_after, args>>

NextEvaluate == Evaluate

SpecEvaluate == InitEvaluate /\ [][NextEvaluate]_vars

\* ------------------------------------------------- peaks, valleys, smooth

\* values[i] of a Python list: indices count from 0
At(values, i) == values[i + 1]

\* threshold: float = None
NoThreshold == [given |-> FALSE, value |-> 0]

Threshold(value) == [given |-> TRUE, value |-> value]

\* Faulty variant of the local maximum test: a tie on the left counts
is_local_maximum_ties_left(values, i) ==
    At(values, i) >= At(values, i - 1) /\ At(values, i) >= At(values, i + 1)

\* Check if this is a local maximum
is_local_maximum(values, i) ==
    At(values, i) > At(values, i - 1) /\ At(values, i) >= At(values, i + 1)

\* Check threshold
below_threshold(value, threshold) ==
    threshold.given /\ value < threshold.value

\* Faulty variant of the distance check: one frame less is enough
far_enough_one_short(i, last_peak, min_distance) ==
    i - last_peak >= min_distance - 1

\* Check distance from last peak
far_enough(i, last_peak, min_distance) == i - last_peak >= min_distance

\* Faulty variant of the spacing reference: every local maximum moves it
last_peak_of_any_candidate(accepted, i, last_peak) == i

\* last_peak after a local maximum at i: assigned in the accepting branch only
last_peak_after(accepted, i, last_peak) == IF accepted THEN i ELSE last_peak

\* for i in range(1, len(values) - 1)
RECURSIVE peaks_loop(_, _, _, _, _, _)
peaks_loop(values, min_distance, threshold, i, peaks, last_peak) ==
    IF i >= Len(values) - 1 THEN peaks
    ELSE IF is_local_maximum(values, i)
         THEN LET accepted ==
                      /\ ~below_threshold(At(values, i), threshold)
                      /\ far_enough(i, last_peak, min_distance)
              IN  peaks_loop(values, min_distance, threshold, i + 1,
                             IF accepted THEN Append(peaks, i) ELSE peaks,
                             last_peak_after(accepted, i, last_peak))
         ELSE peaks_loop(values, min_distance, threshold, i + 1,
                         peaks, last_peak)

\* find_peaks(values, min_distance, threshold)
find_peaks(values, min_distance, threshold) ==
    IF Len(values) < 3 THEN <<>>
    ELSE peaks_loop(values, min_distance, threshold, 1, <<>>, 0 - min_distance)

\* Faulty variant of find_valleys: the threshold is passed on as it is
find_valleys_same_threshold(values, min_distance, threshold) ==
    find_peaks([k \in 1 .. Len(values) |-> 0 - values[k]],
               min_distance, threshold)

\* find_valleys(values, min_distance, threshold)
find_valleys(values, min_distance, threshold) ==
    LET inverted == [k \in 1 .. Len(values) |-> 0 - values[k]]
        inv_threshold == IF threshold.given
                         THEN Threshold(0 - threshold.value)
                         ELSE NoThreshold
    IN  find_peaks(inverted, min_distance, inv_threshold)

Max(a, b) == IF a >= b THEN a ELSE b

\* sum(values[start:end])
RECURSIVE sum_slice(_, _, _)
sum_slice(values, start, end) ==
    IF start >= end THEN 0
    ELSE At(values, start) + sum_slice(values, start + 1, end)

\* Faulty variant of the mean: the sum is always divided by the window
window_mean_padded(values, start, end, width) ==
    [sum |-> sum_slice(values, start, end), count |-> width]

\* sum(values[start:end]) / (end - start), kept as the sum and the count
window_mean(values, start, end, width) ==
    [sum |-> sum_slice(values, start, end), count |-> end - start]

\* smooth(values, window); the parameter is width here, window being the
\* detector's constant
smooth(values, width) ==
    [k \in 1 .. Len(values) |->
        LET i == k - 1
            start == Max(0, i - width \div 2)
            end == Min(Len(values), i + width \div 2 + 1)
        IN  window_mean(values, start, end, width)]

\* The series explored
Series == ListsUpTo({0, 1, 2}, MaxSeriesLen)

Thresholds == {NoThreshold} \cup {Threshold(t) : t \in {0, 2}}

\* The calls of find_peaks, find_valleys and smooth explored
AnnotateCalls ==
    [function : {"find_peaks", "find_valleys"}, values : Series,
     min_distance : 1 .. 3, threshold : Thresholds]
    \cup [function : {"smooth"}, values : Series, window : 1 .. 4]

InitAnnotate ==
    /\ profile = Profile(None, {}, {}, {}, 0)
    /\ pc = "annotate"
    /\ self = Unconstructed
    /\ fresh = Unconstructed
    /\ raised = None
    /\ results = <<>>
    /\ fresh_results = <<>>
    /\ calls = 0
    /\ last_frame = -1
    /\ reset_after = -1
    /\ args \in AnnotateCalls
    /\ returned = None

FindPeaks ==
    /\ pc = "annotate"
    /\ args.function = "find_peaks"
    /\ pc' = "returned"
    /\ returned' = find_peaks(args.values, args.min_distance, args.threshold)
    /\ UNCHANGED <<profile, self, raised, results, calls, last_frame,
                   fresh, fresh_results, reset_after, args>>

FindValleys ==
    /\ pc = "annotate"
    /\ args.function = "find_valleys"
    /\ pc' = "returned"
    /\ returned' = find_valleys(args.values, args.min_distance, args.threshold)
    /\ UNCHANGED <<profile, self, raised, results, calls, last_frame,
                   fresh, fresh_results, reset_after, args>>

Smooth ==
    /\ pc = "annotate"
    /\ args.function = "smooth"
    /\ pc' = "returned"
    /\ returned' = smooth(args.values, args.window)
    /\ UNCHANGED <<profile, self, raised, results, calls, last_frame,
                   fresh, fresh_results, reset_after, args>>

NextAnnotate == FindPeaks \/ FindValleys \/ Smooth

SpecAnnotate == InitAnnotate /\ [][NextAnnotate]_vars

\* ------------------------------------------------------- angle_utils
\*
\* Numbers.  Coordinates are whole pixels.  A norm is a fixed-point number of
\* 1/NormScale pixels, rounded down as a float norm is rounded to its last
\* bit, only coarser; a cosine is a number of 1/CosScale; an angle is a whole
\* number of degrees, so round(angle, 2) changes nothing.  The 1e-6 added to
\* a denominator is below the resolution of a norm and is felt only when the
\* norm is 0.

NormScale == 100

CosScale == 1000

\* np.array([x, y])
Vec(x, y) == [x |-> x, y |-> y]

\* np.dot
dot(v1, v2) == v1.x * v2.x + v1.y * v2.y

\* The largest r with r * r <= n
isqrt(n) == CHOOSE r \in 0 .. n : r * r <= n /\ (r + 1) * (r + 1) > n

\* np.linalg.norm, in 1/NormScale, rounded down
norm(v) ==
    LET whole == isqrt(dot(v, v))
    IN  CHOOSE r \in whole * NormScale .. (whole + 1) * NormScale :
            /\ r * r <= dot(v, v) * NormScale * NormScale
            /\ (r + 1) * (r + 1) > dot(v, v) * NormScale * NormScale

\* denominator + 1e-6
plus_epsilon(denominator) == IF denominator = 0 THEN 1 ELSE denominator

\* a / b for b > 0, rounded to the nearest unit
RoundDiv(a, b) ==
    IF a >= 0 THEN (2 * a + b) \div (2 * b)
    ELSE 0 - ((2 * (0 - a) + b) \div (2 * b))

\* Faulty variant of the clamp: the cosine is passed on as computed
clip_absent(cos_angle) == cos_angle

\* np.clip(cos_angle, -1, 1)
clip(cos_angle) ==
    IF cos_angle < 0 - CosScale THEN 0 - CosScale
    ELSE IF cos_angle > CosScale THEN CosScale
    ELSE cos_angle

\* cos of 0, 1, ..., 180 degrees, in 1/CosScale
CosTable ==
    << 1000, 1000, 999, 999, 998, 996, 995, 993, 990, 988,
       985, 982, 978, 974, 970, 966, 961, 956, 951, 946,
       940, 934, 927, 921, 914, 906, 899, 891, 883, 875,
       866, 857, 848, 839, 829, 819, 809, 799, 788, 777,
       766, 755, 743, 731, 719, 707, 695, 682, 669, 656,
       643, 629, 616, 602, 588, 574, 559, 545, 530, 515,
       500, 485, 469, 454, 438, 423, 407, 391, 375, 358,
       342, 326, 309, 292, 276, 259, 242, 225, 208, 191,
       174, 156, 139, 122, 105, 87, 70, 52, 35, 17,
       0, -17, -35, -52, -70, -87, -105, -122, -139, -156,
       -174, -191, -208, -225, -242, -259, -276, -292, -309, -326,
       -342, -358, -375, -391, -407, -423, -438, -454, -469, -485,
       -500, -515, -530, -545, -559, -574, -588, -602, -616, -629,
       -643, -656, -669, -682, -695, -707, -719, -731, -743, -755,
       -766, -777, -788, -799, -809, -819, -829, -839, -848, -857,
       -866, -875, -883, -891, -899, -906, -914, -921, -927, -934,
       -940, -946, -951, -956, -961, -966, -970, -974, -978, -982,
       -985, -988, -990, -993, -995, -996, -998, -999, -999, -1000,
       -1000 >>

\* The whole degree whose cosine is nearest to c: the degrees d with c nearer
\* to cos(d + 1) than to cos(d) are those before it
nearest_degree(c) ==
    Cardinality({d \in 0 .. 179 : 2 * c < CosTable[d + 1] + CosTable[d + 2]})

\* math.degrees(math.acos(c)): the whole degree whose cosine is nearest, and
\* ValueError (math domain error) outside [-1, 1]
acos_degrees(c) ==
    IF c < 0 - CosScale \/ c > CosScale
    THEN [raised |-> "ValueError", value |-> 0]
    ELSE [raised |-> None, value |-> nearest_degree(c)]

\* calculate_angle(p1, p2, p3): the angle at p2 formed by p1-p2-p3
calculate_angle(p1, p2, p3) ==
    LET v1 == Vec(p1.x - p2.x, p1.y - p2.y)
        v2 == Vec(p3.x - p2.x, p3.y - p2.y)
        cos_angle == RoundDiv(dot(v1, v2) * NormScale * NormScale * CosScale,
                              plus_epsilon(norm(v1) * norm(v2)))
    IN  acos_degrees(clip(cos_angle))

\* A keypoint dict.  name = None stands for a dict without the 'name' key.
Keypoint(name, x, y) == [name |-> name, x |-> x, y |-> y]

\* kp.get("name", f"kp_{i}")
kp_name(kp, i) == IF kp.name # None THEN kp.name ELSE "kp_" \o ToString(i)

\* {kp.get("name", f"kp_{i}"): kp for i, kp in enumerate(keypoints)}: of two
\* keypoints with one name the later one stays
by_name(keypoints) ==
    LET indices == 0 .. Len(keypoints) - 1
    IN  [n \in {kp_name(At(keypoints, i), i) : i \in indices} |->
            At(keypoints,
               CHOOSE i \in indices :
                   /\ kp_name(At(keypoints, i), i) = n
                   /\ \A j \in indices :
                          kp_name(At(keypoints, j), j) = n => j <= i)]

\* MediaPipe BlazePose-33 index for fallback
mediapipe_names ==
    11 :> "left_shoulder" @@ 12 :> "right_shoulder"
    @@ 13 :> "left_elbow" @@ 14 :> "right_elbow"
    @@ 15 :> "left_wrist" @@ 16 :> "right_wrist"
    @@ 23 :> "left_hip" @@ 24 :> "right_hip"
    @@ 25 :> "left_knee" @@ 26 :> "right_knee"
    @@ 27 :> "left_ankle" @@ 28 :> "right_ankle"

\* The keypoints the fallback loop would enter, by landmark name
by_index(keypoints) ==
    LET indices == DOMAIN mediapipe_names \cap (0 .. Len(keypoints) - 1)
    IN  [n \in {mediapipe_names[i] : i \in indices} |->
            At(keypoints, CHOOSE i \in indices : mediapipe_names[i] = n)]

\* Faulty variant of the keypoint map: the positional entry wins
kp_map_index_first(keypoints) == by_index(keypoints) @@ by_name(keypoints)

\* kp_map of compute_angles: by name, and by index where
\* mediapipe_names[i] not in kp_map
kp_map(keypoints) == by_name(keypoints) @@ by_index(keypoints)

\* Get required keypoints
RequiredLandmarks ==
    {"left_shoulder", "right_shoulder", "left_hip", "right_hip",
     "left_wrist", "left_knee", "left_ankle"}

\* The dict returned from the except branch
DegradedAngles ==
    "spineAngle" :> 0 @@ "armToSpineAngle" :> 0 @@ "armToVerticalAngle" :> 0

\* Faulty variant of compute_angles: a missing landmark is not caught
\* The try block of compute_angles once every required keypoint is found.
\* The midpoints halve sums that are even for the keypoints explored.
angles_of(m) ==
    LET left_shoulder == m["left_shoulder"]
        right_shoulder == m["right_shoulder"]
        left_hip == m["left_hip"]
        right_hip == m["right_hip"]
        left_wrist == m["left_wrist"]
        left_knee == m["left_knee"]
        left_ankle == m["left_ankle"]
        shoulder_mid == Vec((left_shoulder.x + right_shoulder.x) \div 2,
                            (left_shoulder.y + right_shoulder.y) \div 2)
        hip_mid == Vec((left_hip.x + right_hip.x) \div 2,
                       (left_hip.y + right_hip.y) \div 2)
        spine_vec == Vec(shoulder_mid.x - hip_mid.x, shoulder_mid.y - hip_mid.y)
        vertical == Vec(0, -1)
        cos_spine == RoundDiv(dot(spine_vec, vertical) * NormScale * CosScale,
                              plus_epsilon(norm(spine_vec)))
        spine_angle == acos_degrees(clip(cos_spine))
        arm_vec == Vec(left_wrist.x - shoulder_mid.x,
                       left_wrist.y - shoulder_mid.y)
        cos_arm_vert == RoundDiv(dot(arm_vec, vertical) * NormScale * CosScale,
                                 plus_epsilon(norm(arm_vec)))
        arm_to_vertical == acos_degrees(clip(cos_arm_vert))
        cos_arm_spine ==
            RoundDiv(dot(arm_vec, spine_vec) * NormScale * NormScale * CosScale,
                     plus_epsilon(norm(arm_vec) * norm(spine_vec)))
        arm_to_spine == acos_degrees(clip(cos_arm_spine))
        hip_angle == calculate_angle(left_knee, left_hip, left_shoulder)
        knee_angle == calculate_angle(left_hip, left_knee, left_ankle)
    IN  IF \E a \in {spine_angle, arm_to_vertical, arm_to_spine, hip_angle,
                     knee_angle} : a.raised # None
        THEN [raised |-> "ValueError", value |-> EmptyDict]
        ELSE [raised |-> None,
              value |-> "spineAngle" :> spine_angle.value
                        @@ "armToSpineAngle" :> arm_to_spine.value
                        @@ "armToVerticalAngle" :> arm_to_vertical.value
                        @@ "hipAngle" :> hip_angle.value
                        @@ "kneeAngle" :> knee_angle.value]

\* Faulty variant of compute_angles: a missing landmark is not caught
compute_angles_uncaught(keypoints) ==
    IF RequiredLandmarks \subseteq DOMAIN kp_map(keypoints)
    THEN angles_of(kp_map(keypoints))
    ELSE [raised |-> "KeyError", value |-> EmptyDict]

\* compute_angles(keypoints): raised is the exception that leaves the call
\* (a ValueError of math.acos is not among those the except clause names)
compute_angles(keypoints) ==
    IF RequiredLandmarks \subseteq DOMAIN kp_map(keypoints)
    THEN angles_of(kp_map(keypoints))
    ELSE [raised |-> None, value |-> DegradedAngles]

\* The value compute_wrist_heights returns as None
NoWristInfo ==
    [found |-> FALSE, leftWristHeight |-> 0, rightWristHeight |-> 0,
     avgWristHeight |-> 0]

\* compute_wrist_heights(keypoints): keypoints are looked up by name only.
\* The halved sums are even for the keypoints explored.
compute_wrist_heights(keypoints) ==
    LET m == by_name(keypoints)
    IN  IF {"left_shoulder", "right_shoulder", "left_wrist", "right_wrist"}
             \subseteq DOMAIN m
        THEN LET shoulder_mid_y ==
                     (m["left_shoulder"].y + m["right_shoulder"].y) \div 2
                 left_height == shoulder_mid_y - m["left_wrist"].y
                 right_height == shoulder_mid_y - m["right_wrist"].y
             IN  [found |-> TRUE, leftWristHeight |-> left_height,
                  rightWristHeight |-> right_height,
                  avgWristHeight |-> (left_height + right_height) \div 2]
        ELSE NoWristInfo

\* detect(frame_index, video_time, keypoints): angles =
\* compute_angles_from_keypoints(keypoints), then the dispatch
detect_keypoints(detector, frame_index, video_time, keypoints) ==
    LET std_angles == compute_angles(keypoints)
    IN  IF std_angles.raised # None
        THEN [self |-> detector, result |-> None, raised |-> std_angles.raised]
        ELSE detect(detector, frame_index, video_time,
                    compute_angles_from_keypoints(
                        std_angles.value["spineAngle"],
                        compute_wrist_heights(keypoints)))

\* The keypoint lists explored.  Coordinates are even, so that every midpoint
\* is whole.
Grid == {2 * k : k \in 0 .. MaxGrid}

Points == [x : Grid, y : Grid]

LandmarkOrder ==
    <<"left_shoulder", "right_shoulder", "left_hip", "right_hip",
      "left_wrist", "right_wrist", "left_knee", "left_ankle">>

\* A pose: where each landmark is.  The hips are in the middle of the grid and
\* the ankle below them; shoulders, wrists and knee vary.
Pose(shoulder, wrist, knee) ==
    [n \in {LandmarkOrder[k] : k \in 1 .. Len(LandmarkOrder)} |->
        CASE n \in {"left_shoulder", "right_shoulder"} -> shoulder
          [] n \in {"left_wrist", "right_wrist"} -> wrist
          [] n \in {"left_hip", "right_hip"} -> Vec(2, 2)
          [] n = "left_knee" -> knee
          [] OTHER -> Vec(2, 4)]

\* The pose reflected in the grid: what a keypoint that is not the landmark
\* holds
Mirror(pose) ==
    [n \in DOMAIN pose |->
        Vec(2 * MaxGrid - pose[n].x, 2 * MaxGrid - pose[n].y)]

\* Named keypoints one after the other, the landmarks in missing left out
Compact(pose, missing) ==
    LET names == SelectSeq(LandmarkOrder, LAMBDA n : n \notin missing)
    IN  [k \in 1 .. Len(names) |->
            Keypoint(names[k], pose[names[k]].x, pose[names[k]].y)]

\* The first n keypoints of a BlazePose-33 list without names
Positional(pose, n) ==
    [k \in 1 .. n |->
        IF /\ k - 1 \in DOMAIN mediapipe_names
           /\ mediapipe_names[k - 1] \in DOMAIN pose
        THEN Keypoint(None, pose[mediapipe_names[k - 1]].x,
                      pose[mediapipe_names[k - 1]].y)
        ELSE Keypoint(None, 0, 0)]

\* Named keypoints first, then nameless keypoints of another pose up to 33
Padded(pose, missing, other) ==
    Compact(pose, missing)
    \o SubSeq(Positional(other, 33), Len(Compact(pose, missing)) + 1, 33)

Layouts ==
    {"named", "no_left_wrist", "no_left_ankle", "no_right_wrist",
     "no_left_shoulder", "empty", "positional", "positional_short",
     "named_before_others", "legs_by_index"}

Layout(pose, layout) ==
    CASE layout = "named" -> Compact(pose, {})
      [] layout = "no_left_wrist" -> Compact(pose, {"left_wrist"})
      [] layout = "no_left_ankle" -> Compact(pose, {"left_ankle"})
      [] layout = "no_right_wrist" -> Compact(pose, {"right_wrist"})
      [] layout = "no_left_shoulder" -> Compact(pose, {"left_shoulder"})
      [] layout = "empty" -> <<>>
      [] layout = "positional" -> Positional(pose, 33)
      [] layout = "positional_short" -> Positional(pose, 27)
      [] layout = "named_before_others" -> Padded(pose, {}, Mirror(pose))
      [] OTHER -> Padded(pose, {"left_knee", "left_ankle"}, Mirror(pose))

InitAngles ==
    /\ profile = Profile(None, {}, {}, {}, 0)
    /\ pc = "angles"
    /\ self = Unconstructed
    /\ fresh = Unconstructed
    /\ raised = None
    /\ results = <<>>
    /\ fresh_results = <<>>
    /\ calls = 0
    /\ last_frame = -1
    /\ reset_after = -1
    /\ \/ \E p1 \in Points, p2 \in Points, p3 \in Points :
              args = [function |-> "calculate_angle",
                      p1 |-> p1, p2 |-> p2, p3 |-> p3]
       \/ \E shoulder \in Points, wrist \in Points,
             knee \in {Vec(2, 2), Vec(2, 4)}, layout \in Layouts,
             function \in {"compute_angles", "threshold", "peak"} :
              args = [function |-> function,
                      keypoints |-> Layout(Pose(shoulder, wrist, knee), layout)]
    /\ returned = None

CalculateAngle ==
    /\ pc = "angles"
    /\ args.function = "calculate_angle"
    /\ pc' = "returned"
    /\ returned' = calculate_angle(args.p1, args.p2, args.p3)
    /\ UNCHANGED <<profile, self, raised, results, calls, last_frame,
                   fresh, fresh_results, reset_after, args>>

ComputeAngles ==
    /\ pc = "angles"
    /\ args.function = "compute_angles"
    /\ pc' = "returned"
    /\ returned' = compute_angles(args.keypoints)
    /\ UNCHANGED <<profile, self, raised, results, calls, last_frame,
                   fresh, fresh_results, reset_after, args>>

\* PositionDetector(algorithm).detect(0, 0.0, keypoints)
DetectKeypoints ==
    /\ pc = "angles"
    /\ args.function \in KnownAlgorithms
    /\ pc' = "returned"
    /\ returned' = detect_keypoints(__init__(args.function), 0, 0,
                                    args.keypoints)
    /\ UNCHANGED <<profile, self, raised, results, calls, last_frame,
                   fresh, fresh_results, reset_after, args>>

NextAngles == CalculateAngle \/ ComputeAngles \/ DetectKeypoints

SpecAngles == InitAngles /\ [][NextAngles]_vars

\* ------------------------------------------- annotate_poses: candidates

\* annotate_poses.compute_angles(keypoints): "spine" and "armToVertical" are
\* set when the shared angle is not 0, then the wrist heights are added
annotate_compute_angles(keypoints) ==
    LET std_angles == compute_angles(keypoints)
        wrist_info == compute_wrist_heights(keypoints)
    IN  IF std_angles.raised # None
        THEN [raised |-> std_angles.raised, value |-> EmptyDict]
        ELSE [raised |-> None,
              value |->
                 (IF std_angles.value["spineAngle"] # 0
                  THEN "spine" :> std_angles.value["spineAngle"] ELSE EmptyDict)
                 @@ (IF std_angles.value["armToVerticalAngle"] # 0
                     THEN "armToVertical" :> std_angles.value["armToVerticalAngle"]
                     ELSE EmptyDict)
                 @@ (IF wrist_info.found
                     THEN "leftWristHeight" :> wrist_info.leftWristHeight
                          @@ "rightWristHeight" :> wrist_info.rightWristHeight
                          @@ "avgWristHeight" :> wrist_info.avgWristHeight
                     ELSE EmptyDict)]

\* Video times are in milliseconds: round(seconds, 3)
MillisPerSecond == 1000

\* round(frame.get("videoTime", frame["frameIndex"] / 30), 3)
video_time_of(frame) ==
    IF "videoTime" \in DOMAIN frame THEN frame["videoTime"]
    ELSE RoundDiv(frame["frameIndex"] * MillisPerSecond, 30)

\* The smoothed series in 1/SmoothUnit: every window of 1 to 5 samples
\* divides it, so the means are exact
SmoothUnit == 60

in_smooth_units(mean) == (mean.sum * SmoothUnit) \div mean.count

smoothed(values) ==
    LET means == smooth(values, 5)
    IN  [k \in 1 .. Len(values) |-> in_smooth_units(means[k])]

\* The frame a candidate takes its frame_index from: the list position
candidate_frame_index(posetrack, peak_idx) == peak_idx

\* One candidate of generate_annotations
candidate(posetrack, frames_data, peak_idx, position, reason) ==
    [frame_index |-> candidate_frame_index(posetrack, peak_idx),
     video_time |-> At(frames_data, peak_idx).video_time,
     position |-> position,
     confidence |-> "auto",
     reason |-> reason]

\* generate_annotations, after the angles of every frame are computed
annotations_from(posetrack, computed) ==
    LET frames == posetrack.frames
        failed == {k \in 1 .. Len(frames) : computed[k].raised # None}
        arm_heights == [k \in 1 .. Len(frames) |->
                           Get(computed[k].value, "avgWristHeight", 0)]
        spine_angles == [k \in 1 .. Len(frames) |->
                            Get(computed[k].value, "spine", 0)]
        frames_data == [k \in 1 .. Len(frames) |->
                           [frame_index |-> frames[k]["frameIndex"],
                            video_time |-> video_time_of(frames[k]),
                            angles |-> computed[k].value]]
        arm_peaks == find_peaks(smoothed(arm_heights), 15, NoThreshold)
        top_peaks == SelectSeq(arm_peaks,
                               LAMBDA peak_idx :
                                   /\ At(spine_angles, peak_idx) < 30
                                   /\ At(arm_heights, peak_idx) > -80)
        spine_peaks == find_peaks(smoothed(spine_angles), 15,
                                  Threshold(50 * SmoothUnit))
    IN  IF failed # {}
        THEN [raised |-> computed[CHOOSE k \in failed :
                                      \A other \in failed : k <= other].raised,
              value |-> None]
        ELSE [raised |-> None,
              value |->
                 [metadata |->
                     [source |-> Get(posetrack.metadata, "sourceVideoName",
                                     "unknown"),
                      frame_count |-> Len(frames),
                      fps |-> Get(posetrack.metadata, "fps", 30)],
                  candidates |->
                     [top |->
                         [k \in 1 .. Len(top_peaks) |->
                             candidate(posetrack, frames_data, top_peaks[k], "top",
                                       [peak |-> "arm_peak",
                                        spine |-> At(spine_angles, top_peaks[k]),
                                        arm_h |-> At(arm_heights, top_peaks[k])])],
                      bottom |->
                         [k \in 1 .. Len(spine_peaks) |->
                             candidate(posetrack, frames_data, spine_peaks[k],
                                       "bottom",
                                       [peak |-> "spine_peak",
                                        spine |-> At(spine_angles,
                                                     spine_peaks[k])])]],
                  annotations |-> <<>>,
                  frames |-> frames_data]]

\* generate_annotations(posetrack): the loop computes the angles of every
\* frame once, the rest reads them
generate_annotations(posetrack) ==
    LET frames == posetrack.frames
    IN  CHOOSE out \in
            {annotations_from(posetrack, computed) :
                computed \in {[k \in 1 .. Len(frames) |->
                                 annotate_compute_angles(frames[k]["keypoints"])]}} :
            TRUE

\* The poses of the frames of a posetrack: upright with the wrists at the
\* shoulders, upright with the wrists at the ankles, bent over; and a frame
\* whose keypoint list is empty
FramePoses ==
    {Compact(Pose(Vec(2, 0), Vec(2, 0), Vec(2, 4)), {}),
     Compact(Pose(Vec(2, 0), Vec(2, 4), Vec(2, 4)), {}),
     Compact(Pose(Vec(0, 2), Vec(0, 4), Vec(2, 4)), {}),
     <<>>}

\* How the frames of a posetrack are numbered: from 0 by 1, from 3 by 1 (a
\* clip cut out of a longer track), from 0 by 2 (every other frame kept)
Numberings ==
    {[first |-> 0, step |-> 1], [first |-> 3, step |-> 1],
     [first |-> 0, step |-> 2]}

Metadatas == {EmptyDict, "sourceVideoName" :> "swing.mp4" @@ "fps" :> 60}

Posetrack(poses, numbering, metadata) ==
    [metadata |-> metadata,
     frames |-> [k \in 1 .. Len(poses) |->
                    "frameIndex" :> (numbering.first + numbering.step * (k - 1))
                    @@ "keypoints" :> poses[k]]]

InitGenerate ==
    /\ profile = Profile(None, {}, {}, {}, 0)
    /\ pc = "annotating"
    /\ self = Unconstructed
    /\ fresh = Unconstructed
    /\ raised = None
    /\ results = <<>>
    /\ fresh_results = <<>>
    /\ calls = 0
    /\ last_frame = -1
    /\ reset_after = -1
    /\ \E poses \in ListsUpTo(FramePoses, MaxFrames), numbering \in Numberings,
          metadata \in Metadatas :
           args = [function |-> "generate_annotations",
                   posetrack |-> Posetrack(poses, numbering, metadata)]
    /\ returned = None

GenerateAnnotations ==
    /\ pc = "annotating"
    /\ pc' = "returned"
    /\ LET out == generate_annotations(args.posetrack)
       IN  /\ raised' = out.raised
           /\ returned' = out.value
    /\ UNCHANGED <<profile, self, results, calls, last_frame, fresh,
                   fresh_results, reset_after, args>>

NextGenerate == GenerateAnnotations

SpecGenerate == InitGenerate /\ [][NextGenerate]_vars

\* ------------------------------------------------------------ the claims

\* What the results of the session say, read off the results alone: the spine
\* and the wrist height of the session's i-th frame, its frame index, and the
\* 3-sample test on the samples of frames i-2, i-1, i.
SpineAt(i) == Get(results[i].angles, "spine", 0)

ArmAt(i) == Get(results[i].angles, "avgWristHeight", 0)

FrameAt(i) == results[i].frame_index

LabelAt(i) == results[i].detected_position

ArmMaxBefore(i) ==
    i >= 3 /\ ArmAt(i - 1) > ArmAt(i - 2) /\ ArmAt(i - 1) >= ArmAt(i)

SpineMaxBefore(i) ==
    i >= 3 /\ SpineAt(i - 1) > SpineAt(i - 2) /\ SpineAt(i - 1) >= SpineAt(i)

Frames == 1 .. Len(results)

PeakRun == pc = "ready" /\ self.algorithm = "peak"

ThresholdRun == pc = "ready" /\ self.algorithm = "threshold"

\* A step that is a detect() call of the peak algorithm
PeakCall == PeakRun /\ calls' = calls + 1

\* C1: in one session of the peak algorithm, any two results labelled "top"
\* have frame indices at least 10 apart, and so have any two labelled "bottom".
C1_RefractorySpacing ==
    PeakRun =>
        \A i, j \in Frames :
            (/\ i < j
             /\ LabelAt(i) \in {"top", "bottom"}
             /\ LabelAt(i) = LabelAt(j))
            => FrameAt(j) - FrameAt(i) >= 10

\* Two bottoms in one session, two detect() calls but 12 frames apart
C1_TwoBottomsInOneSession ==
    /\ PeakRun
    /\ \E i, j \in Frames :
          /\ j = i + 2
          /\ LabelAt(i) = "bottom" /\ LabelAt(j) = "bottom"
          /\ FrameAt(j) - FrameAt(i) = 12

\* C2 as stated: a wrist-height maximum detected at frame f is labelled "top"
\* with confidence 0.9 whenever f - last_top_frame >= 10, unless the frame is
\* labelled "bottom"; a spine maximum above 50 becomes "bottom" likewise.
C2_GateOpensAtTen ==
    [][PeakCall =>
        LET r == results'[Len(results')]
            f == r.frame_index
        IN  /\ (/\ r.is_arm_peak
                /\ f - self.last_top_frame >= 10
                /\ r.detected_position # "bottom")
               => (r.detected_position = "top"
                   /\ 10 * r.confidence = 9 * ConfidenceScale)
            /\ (r.is_spine_peak /\ f - self.last_bottom_frame >= 10)
               => (r.detected_position = "bottom"
                   /\ 10 * r.confidence = 9 * ConfidenceScale)]_vars

\* C2, amended: the gate opens when MORE than 10 frames have passed.  A
\* wrist-height maximum detected at frame f on a frame not labelled "bottom" is
\* labelled "top" with confidence 0.9 if f - last_top_frame >= 11 and is not
\* labelled "top" if the gap is 10 or less; a spine maximum above 50 is
\* labelled "bottom" with confidence 0.9 if f - last_bottom_frame >= 11 and is
\* not labelled "bottom" if the gap is 10 or less.
C2_GateOpensAtEleven ==
    [][PeakCall =>
        LET r == results'[Len(results')]
            f == r.frame_index
        IN  /\ (r.is_arm_peak /\ r.detected_position # "bottom")
               => IF f - self.last_top_frame >= 11
                  THEN /\ r.detected_position = "top"
                       /\ 10 * r.confidence = 9 * ConfidenceScale
                  ELSE r.detected_position # "top"
            /\ r.is_spine_peak
               => IF f - self.last_bottom_frame >= 11
                  THEN /\ r.detected_position = "bottom"
                       /\ 10 * r.confidence = 9 * ConfidenceScale
                  ELSE r.detected_position # "bottom"]_vars

\* A second top exactly 11 frames after the first
C2_TopElevenFramesLater ==
    /\ PeakRun
    /\ \E i, j \in Frames :
          /\ i < j
          /\ LabelAt(i) = "top" /\ LabelAt(j) = "top"
          /\ FrameAt(j) - FrameAt(i) = 11
          /\ 10 * results[j].confidence = 9 * ConfidenceScale

\* The session of the spec's example: wrist heights 0, 5, 10, 5, 0 at frame
\* indices 0..4, the spine held constant.
BumpSession ==
    /\ PeakRun
    /\ Len(results) = 5
    /\ \A i \in Frames : FrameAt(i) = i - 1 /\ SpineAt(i) = SpineAt(1)
    /\ <<ArmAt(1), ArmAt(2), ArmAt(3), ArmAt(4), ArmAt(5)>> = <<0, 5, 10, 5, 0>>

\* C3 as stated: in the example session the result of frame 2, the frame that
\* delivered the maximum, has is_arm_peak and the label "top"; in general a
\* frame whose own sample is the local maximum carries the flag.
C3_PeakOnItsOwnFrame ==
    /\ BumpSession
       => results[3].is_arm_peak /\ LabelAt(3) = "top"
    /\ PeakRun
       => \A i \in Frames : ArmMaxBefore(i) => results[i - 1].is_arm_peak

\* C3, amended: the flag and the label are attached to the result of the frame
\* AFTER the one whose sample is the local maximum.  In the example session
\* the result of frame 3 has is_arm_peak and the label "top" and the result of
\* frame 2 has neither; in general is_arm_peak is set on a frame only if the
\* previous frame's sample is a local maximum.
C3_PeakOnTheNextFrame ==
    /\ BumpSession
       => /\ results[4].is_arm_peak /\ LabelAt(4) = "top"
          /\ ~results[3].is_arm_peak /\ LabelAt(3) # "top"
    /\ PeakRun
       => \A i \in Frames : results[i].is_arm_peak => ArmMaxBefore(i)

C3_BumpSessionFed == BumpSession /\ results[4].is_arm_peak

C6_SlopeFallback ==
    PeakRun =>
        \A i \in Frames :
            (i >= 2 /\ LabelAt(i) \notin {"top", "bottom"})
            => IF SpineAt(i) > SpineAt(i - 1) + 2
               THEN LabelAt(i) = "connect"
                    /\ 2 * results[i].confidence = ConfidenceScale
               ELSE IF SpineAt(i) < SpineAt(i - 1) - 2
               THEN LabelAt(i) = "release"
                    /\ 2 * results[i].confidence = ConfidenceScale
               ELSE LabelAt(i) = None /\ results[i].confidence = 0

\* A rise of exactly 2 with no label, a connect and a release in one session
C6_RiseOfExactlyTwo ==
    /\ PeakRun
    /\ \E i \in Frames :
          i >= 2 /\ SpineAt(i) = SpineAt(i - 1) + 2 /\ LabelAt(i) = None
    /\ \E i \in Frames : LabelAt(i) = "connect"
    /\ \E i \in Frames : LabelAt(i) = "release"

\* C7: under the threshold algorithm the label is top iff spine < 25, bottom
\* iff spine > 60, release iff 25 <= spine < 45, connect iff 45 <= spine <= 60,
\* and never None.
C7_ThresholdPartition ==
    ThresholdRun =>
        \A i \in Frames :
            /\ LabelAt(i) = "top" <=> SpineAt(i) < 25
            /\ LabelAt(i) = "bottom" <=> SpineAt(i) > 60
            /\ LabelAt(i) = "release" <=> (25 <= SpineAt(i) /\ SpineAt(i) < 45)
            /\ LabelAt(i) = "connect" <=> (45 <= SpineAt(i) /\ SpineAt(i) <= 60)
            /\ LabelAt(i) # None

C7_ConnectAtFortyFive ==
    /\ ThresholdRun
    /\ \E i \in Frames : SpineAt(i) = 45 /\ LabelAt(i) = "connect"

\* C8: the threshold confidence is 1 - spine/25 for top, min(1, (spine-60)/30)
\* for bottom, 0.5 for release and connect, and lies in [0, 1] for every
\* spine in 0..180; spine 10 gives 0.6 and spine 75 gives 0.5.
C8_ThresholdConfidence ==
    ThresholdRun =>
        \A i \in Frames :
            LET c == results[i].confidence
                s == SpineAt(i)
            IN  /\ LabelAt(i) = "top"
                   => 25 * c = ConfidenceScale * (25 - s)
                /\ LabelAt(i) = "bottom"
                   => 30 * c = Min(30 * ConfidenceScale, ConfidenceScale * (s - 60))
                /\ LabelAt(i) \in {"release", "connect"}
                   => 2 * c = ConfidenceScale
                /\ s = 10 => 10 * c = 6 * ConfidenceScale
                /\ s = 75 => 2 * c = ConfidenceScale
                /\ 0 <= c /\ c <= ConfidenceScale

\* spine 180: the bottom confidence is capped at 1
C8_CappedAtOne ==
    /\ ThresholdRun
    /\ \E i \in Frames : SpineAt(i) = 180 /\ results[i].confidence = ConfidenceScale

C10_ResetIsFresh ==
    reset_after >= 0 =>
        /\ results = fresh_results
        /\ self = fresh
        /\ calls = 0 =>
              /\ self.arm_angle_history = <<>>
              /\ self.spine_angle_history = <<>>
              /\ self.prev_arm_angle = 0
              /\ self.prev_spine_angle = 0
              /\ self.last_top_frame = -999
              /\ self.last_bottom_frame = -999

\* A reset after a full session, and a top found in the session after it
C10_TopAfterReset ==
    /\ PeakRun
    /\ reset_after = MaxCalls
    /\ \E i \in Frames : LabelAt(i) = "top"

\* C11: after every detect() call of the peak algorithm the wrist-height
\* history and the spine history have the same length, and that length is at
\* most 10, however many frames the session has had.
C11_HistoryBound ==
    PeakRun =>
        /\ Len(self.arm_angle_history) = Len(self.spine_angle_history)
        /\ Len(self.arm_angle_history) <= 10
        /\ Len(self.arm_angle_history) = Min(calls, 10)

\* The eleventh frame of a session has been processed: ten samples are kept
C11_EleventhFrame ==
    /\ PeakRun
    /\ calls = 11
    /\ Len(self.arm_angle_history) = 10
    /\ Len(self.spine_angle_history) = 10

\* The frames a detector was fed, read off the results it returned
FramesOf(rs) ==
    [i \in 1 .. Len(rs) |->
        [frame_index |-> rs[i].frame_index, video_time |-> rs[i].video_time,
         angles |-> rs[i].angles]]

\* C12: whatever the interleaving of the detect() calls of two detectors, each
\* has returned exactly what a detector running alone returns for its frames.
C12_InstancesIsolated ==
    pc = "pair" =>
        /\ results = analyze_posetrack(FramesOf(results), self.algorithm)
        /\ fresh_results
              = analyze_posetrack(FramesOf(fresh_results), fresh.algorithm)

\* Both detectors have been through a wrist peak, their calls interleaved:
\* the first found its top with the second in the middle of its own bump
C12_BothFoundTop ==
    /\ pc = "pair"
    /\ \E i \in 1 .. Len(results) : results[i].detected_position = "top"
    /\ \E i \in 1 .. Len(fresh_results) :
          fresh_results[i].detected_position = "top"
    /\ fresh.algorithm = "peak"
    /\ Len(results) = 3
    /\ Len(fresh_results) = 4

\* What the evaluator was called with and what it returned
EvalDetected ==
    {args.results[i].frame_index :
        i \in {j \in 1 .. Len(args.results) :
                 args.results[j].detected_position = args.position}}

EvalAnnotated ==
    {args.ground_truth[i].frame_index :
        i \in {j \in 1 .. Len(args.ground_truth) :
                 args.ground_truth[j].position = args.position}}

\* C13: for the evaluated position every distinct detected frame is a true
\* positive iff some annotated frame of that position is within 2 frames of
\* it and a false positive otherwise, and every distinct annotated frame is a
\* false negative iff no detected frame is within 2 frames of it.  Annotation
\* top@10 with detection top@11 gives tp=1, fp=0, fn=0; a further detection
\* top@20 gives fp=1; no detection in frames 8..12 gives fn=1.
C13_ToleranceMatching ==
    pc = "evaluated" =>
        LET metrics == returned.metrics
            D == EvalDetected
            G == EvalAnnotated
        IN  /\ metrics.true_positives =
                  Cardinality({d \in D : \E g \in G : d - g \in -2 .. 2})
            /\ metrics.false_positives =
                  Cardinality({d \in D : \A g \in G : d - g \notin -2 .. 2})
            /\ metrics.false_negatives =
                  Cardinality({g \in G : \A d \in D : d - g \notin -2 .. 2})
            /\ (G = {10} /\ D = {11}) =>
                   /\ metrics.true_positives = 1
                   /\ metrics.false_positives = 0
                   /\ metrics.false_negatives = 0
            /\ (G = {10} /\ D = {11, 20}) => metrics.false_positives = 1
            /\ (G = {10} /\ D \cap (8 .. 12) = {}) =>
                   metrics.false_negatives = 1

\* C13 happens: annotation top@10, detections top@11 and top@20
C13_OneMatchOneSpurious ==
    /\ pc = "evaluated"
    /\ args.position = "top"
    /\ EvalAnnotated = {10}
    /\ EvalDetected = {11, 20}
    /\ returned.metrics.true_positives = 1
    /\ returned.metrics.false_positives = 1
    /\ returned.metrics.false_negatives = 0

\* C14: the matching is many-to-many.  One annotated frame satisfies several
\* detected frames (annotation {10}, detections {9, 11}: tp=2, fp=0, fn=0), one
\* detected frame satisfies several annotated frames (detection {10},
\* annotations {9, 11}: tp=1, fn=0), and every detected frame is counted once
\* whatever the other detections matched.
C14_ManyToMany ==
    pc = "evaluated" =>
        LET metrics == returned.metrics
        IN  /\ (EvalAnnotated = {10} /\ EvalDetected = {9, 11}) =>
                   /\ metrics.true_positives = 2
                   /\ metrics.false_positives = 0
                   /\ metrics.false_negatives = 0
            /\ (EvalDetected = {10} /\ EvalAnnotated = {9, 11}) =>
                   /\ metrics.true_positives = 1
                   /\ metrics.false_negatives = 0
            /\ metrics.true_positives + metrics.false_positives =
                   Cardinality(EvalDetected)

\* C14 happens: more true positives than annotated frames
C14_MoreMatchesThanAnnotations ==
    /\ pc = "evaluated"
    /\ EvalAnnotated = {10}
    /\ EvalDetected = {9, 11}
    /\ returned.metrics.true_positives > Cardinality(EvalAnnotated)

\* C15: the evaluator never fails.  Whatever the results and the annotations,
\* metrics come back, precision = tp/(tp+fp), recall = tp/(tp+fn), f1 is the
\* harmonic mean of the two, that is 2tp/(2tp+fp+fn), and each of the three is
\* 0.0 when its denominator is zero.
C15_NeverFails ==
    pc = "evaluated" =>
        LET tp == returned.metrics.true_positives
            fp == returned.metrics.false_positives
            fn == returned.metrics.false_negatives
            p == returned.precision
            r == returned.recall
            f == returned.f1
        IN  /\ returned.metrics.total_frames = Len(args.results)
            /\ p.raised = None /\ r.raised = None /\ f.raised = None
            /\ p.den > 0 /\ r.den > 0 /\ f.den > 0
            /\ p.num * (tp + fp) = tp * p.den
            /\ r.num * (tp + fn) = tp * r.den
            /\ f.num * (2 * tp + fp + fn) = 2 * tp * f.den
            /\ tp + fp = 0 => p.num = 0
            /\ tp + fn = 0 => r.num = 0
            /\ tp = 0 => f.num = 0

\* C15 happens: nothing detected and nothing annotated
C15_EmptyBothWays ==
    /\ pc = "evaluated"
    /\ args.results = <<>>
    /\ args.ground_truth = <<>>
    /\ returned.precision = Ratio(0, 1)
    /\ returned.recall = Ratio(0, 1)
    /\ returned.f1 = Ratio(0, 1)

\* Calls of the series functions that have returned
Returned(function) == pc = "returned" /\ args.function = function

\* The indices a call returned
ReturnedIndices == {returned[k] : k \in 1 .. Len(returned)}

\* Index i is a peak candidate of the series: a local maximum inside the
\* series that is not below the threshold
QualifiesAsPeak(i) ==
    /\ 1 <= i /\ i <= Len(args.values) - 2
    /\ At(args.values, i) > At(args.values, i - 1)
    /\ At(args.values, i) >= At(args.values, i + 1)
    /\ args.threshold.given => At(args.values, i) >= args.threshold.value

\* Index i is a valley candidate of the series
QualifiesAsValley(i) ==
    /\ 1 <= i /\ i <= Len(args.values) - 2
    /\ At(args.values, i) < At(args.values, i - 1)
    /\ At(args.values, i) <= At(args.values, i + 1)
    /\ args.threshold.given => At(args.values, i) <= args.threshold.value

\* Index i is the first returned index or at least min_distance after the
\* returned index before it
SpacedFromAccepted(i) ==
    \A j \in ReturnedIndices :
        (j < i /\ \A k \in ReturnedIndices : k < i => k <= j) =>
            i - j >= args.min_distance

\* C16: whatever the series, the min_distance >= 1 and the threshold, the
\* indices find_peaks returns are strictly increasing and any two of them are
\* at least min_distance apart.
C16_PeakSpacing ==
    Returned("find_peaks") =>
        \A a, b \in 1 .. Len(returned) :
            a < b =>
                /\ returned[a] < returned[b]
                /\ returned[b] - returned[a] >= args.min_distance

\* C16 happens: two peaks exactly min_distance = 3 apart
C16_PeaksThreeApart ==
    /\ Returned("find_peaks")
    /\ args.min_distance = 3
    /\ Len(returned) = 2
    /\ returned[2] - returned[1] = 3

\* C17: scanning left to right, a qualifying index is returned iff it is the
\* first accepted one or at least min_distance after the previously accepted
\* index; a candidate rejected for being too close or skipped for being below
\* the threshold does not move the spacing reference.
C17_GreedyAcceptance ==
    Returned("find_peaks") =>
        \A i \in 0 .. Len(args.values) - 1 :
            i \in ReturnedIndices <=>
                (QualifiesAsPeak(i) /\ SpacedFromAccepted(i))

\* C17 happens: a candidate at 3 rejected as too close to the peak at 1 does
\* not keep the candidate at 5 out
C17_RejectedDoesNotDelay ==
    /\ Returned("find_peaks")
    /\ args.min_distance = 3
    /\ returned = <<1, 5>>
    /\ QualifiesAsPeak(3)

\* C18: every index i find_peaks returns has 1 <= i <= n-2,
\* values[i] > values[i-1], values[i] >= values[i+1] and, with a threshold,
\* values[i] >= threshold; of a flat plateau only the first index can be
\* returned; series of length 0, 1 or 2 give the empty list.
C18_PeakQualification ==
    Returned("find_peaks") =>
        /\ \A i \in ReturnedIndices :
               /\ 1 <= i /\ i <= Len(args.values) - 2
               /\ At(args.values, i) > At(args.values, i - 1)
               /\ At(args.values, i) >= At(args.values, i + 1)
               /\ args.threshold.given =>
                      At(args.values, i) >= args.threshold.value
        /\ \A i \in 1 .. Len(args.values) - 1 :
               At(args.values, i) = At(args.values, i - 1) =>
                   i \notin ReturnedIndices
        /\ Len(args.values) < 3 => returned = <<>>

\* C18 happens: the plateau at indices 1 and 2 is returned as index 1
C18_PlateauFirstIndex ==
    /\ Returned("find_peaks")
    /\ Len(args.values) >= 4
    /\ At(args.values, 1) = At(args.values, 2)
    /\ returned = <<1>>

\* C19: find_valleys(values, d, t) is find_peaks on the negated series with
\* the negated threshold: under the same greedy spacing rule it returns the
\* indices i with values[i] < values[i-1] and values[i] <= values[i+1],
\* skipping those whose value is above t when t is given.
C19_ValleysMirrorPeaks ==
    Returned("find_valleys") =>
        /\ returned =
               find_peaks([k \in 1 .. Len(args.values) |-> 0 - args.values[k]],
                          args.min_distance,
                          [given |-> args.threshold.given,
                           value |-> 0 - args.threshold.value])
        /\ \A a, b \in 1 .. Len(returned) : a < b => returned[a] < returned[b]
        /\ \A i \in 0 .. Len(args.values) - 1 :
               i \in ReturnedIndices <=>
                   (QualifiesAsValley(i) /\ SpacedFromAccepted(i))

\* C19 happens: with threshold 0 the valley of value 1 is skipped and the
\* valley of value 0 is returned
C19_ShallowValleySkipped ==
    /\ Returned("find_valleys")
    /\ args.threshold = Threshold(0)
    /\ Len(returned) = 1
    /\ \E i \in 1 .. Len(args.values) - 2 :
           /\ At(args.values, i) = 1
           /\ At(args.values, i - 1) = 2
           /\ At(args.values, i + 1) = 2
           /\ i < returned[1]

\* The sum of values[lo], ..., values[hi]
RECURSIVE SumBetween(_, _)
SumBetween(lo, hi) ==
    IF lo > hi THEN 0 ELSE SumBetween(lo, hi - 1) + At(args.values, hi)

\* C20: for any series and any window >= 1 the output of smooth is as long as
\* the input and output[i] is the arithmetic mean of
\* values[max(0, i - window//2) .. min(n-1, i + window//2)]: the window is
\* truncated at the ends, so that window = 1 gives the input back.
C20_SmoothTruncatedMean ==
    Returned("smooth") =>
        /\ Len(returned) = Len(args.values)
        /\ \A i \in 0 .. Len(args.values) - 1 :
               LET half == args.window \div 2
                   lo == IF i - half < 0 THEN 0 ELSE i - half
                   hi == IF i + half > Len(args.values) - 1
                         THEN Len(args.values) - 1 ELSE i + half
                   out == At(returned, i)
               IN  /\ out.count > 0
                   /\ out.sum * (hi - lo + 1) = SumBetween(lo, hi) * out.count
                   /\ args.window = 1 =>
                          out.sum = At(args.values, i) * out.count

\* C20 happens: window 3 averages two samples at the edge and three inside
C20_EdgeAveragesFewer ==
    /\ Returned("smooth")
    /\ args.window = 3
    /\ args.values = <<1, 2, 0, 2>>
    /\ returned[1] = [sum |-> 3, count |-> 2]
    /\ returned[2] = [sum |-> 3, count |-> 3]
    /\ returned[4] = [sum |-> 2, count |-> 2]

\* The index the positional mapping gives a landmark
LandmarkIndex(landmark) ==
    CHOOSE i \in DOMAIN mediapipe_names : mediapipe_names[i] = landmark

\* The indices of the keypoints that carry the name
NamedAs(landmark) ==
    {i \in 0 .. Len(args.keypoints) - 1 : At(args.keypoints, i).name = landmark}

\* The landmark can be found in the keypoints of the call: a keypoint carries
\* its name, or the list reaches its positional index
Findable(landmark) ==
    NamedAs(landmark) # {} \/ LandmarkIndex(landmark) < Len(args.keypoints)

SomeLandmarkMissing == \E landmark \in RequiredLandmarks : ~Findable(landmark)

\* C21: when a required landmark cannot be found in the keypoints,
\* compute_angles returns the profile with spineAngle, armToSpineAngle and
\* armToVerticalAngle all 0 and raises nothing, and detect() under a known
\* algorithm returns a DetectionResult for the frame.
C21_GracefulDegradation ==
    (pc = "returned" /\ args.function # "calculate_angle"
     /\ SomeLandmarkMissing) =>
        /\ returned.raised = None
        /\ args.function = "compute_angles" =>
               /\ returned.value["spineAngle"] = 0
               /\ returned.value["armToSpineAngle"] = 0
               /\ returned.value["armToVerticalAngle"] = 0
        /\ args.function \in KnownAlgorithms =>
               /\ returned.result.frame_index = 0
               /\ returned.result.detected_position
                      \in {"top", "bottom", "connect", "release", None}
               /\ "spine" \notin DOMAIN returned.result.angles

\* C21 happens: only the left ankle is missing and the peak algorithm returns
\* a result
C21_AnkleMissing ==
    /\ Returned("peak")
    /\ ~Findable("left_ankle")
    /\ \A landmark \in RequiredLandmarks \ {"left_ankle"} : Findable(landmark)
    /\ returned.raised = None
    /\ returned.result.frame_index = 0

\* C22: a frame whose required landmarks are missing is not classified 'top'
\* by the threshold algorithm.
C22_DegradedIsNotTop ==
    (Returned("threshold") /\ SomeLandmarkMissing) =>
        returned.result.detected_position # "top"

\* The keypoint the claimed precedence picks for a landmark that can be found:
\* the one that carries the name (the last of them), else the one at the
\* positional index
Picked(landmark) ==
    IF NamedAs(landmark) # {}
    THEN At(args.keypoints,
            CHOOSE i \in NamedAs(landmark) : \A j \in NamedAs(landmark) : j <= i)
    ELSE At(args.keypoints, LandmarkIndex(landmark))

\* C23: a required landmark present by name is the one compute_angles uses,
\* whatever keypoint sits at its positional index; the positional index
\* supplies the landmark only when no keypoint carries the name.
C23_NameBeforeIndex ==
    (Returned("compute_angles") /\ ~SomeLandmarkMissing) =>
        /\ \A landmark \in RequiredLandmarks :
               kp_map(args.keypoints)[landmark] = Picked(landmark)
        /\ returned =
               angles_of([landmark \in RequiredLandmarks |-> Picked(landmark)])

\* C23 happens: the left shoulder is named at index 0, another keypoint sits
\* at index 11, and the knee comes from index 25
C23_NamedElsewhere ==
    /\ Returned("compute_angles")
    /\ ~SomeLandmarkMissing
    /\ NamedAs("left_shoulder") = {0}
    /\ NamedAs("left_knee") = {}
    /\ At(args.keypoints, 11) # At(args.keypoints, 0)
    /\ returned.value["spineAngle"] = 45

\* C24: every angle calculate_angle and compute_angles return lies in
\* [0, 180], coincident points included, and nothing is raised.
C24_AnglesInRange ==
    /\ Returned("calculate_angle") =>
           returned.raised = None /\ returned.value \in 0 .. 180
    /\ Returned("compute_angles") =>
           /\ returned.raised = None
           /\ \A k \in DOMAIN returned.value : returned.value[k] \in 0 .. 180

\* C24 happens: p1 coincides with the vertex
C24_CoincidentPoints ==
    /\ Returned("calculate_angle")
    /\ args.p1 = args.p2
    /\ args.p3 # args.p2
    /\ returned = [raised |-> None, value |-> 90]

\* last_top_frame before the session's i-th call, read off the results: the
\* frame of the last wrist peak that came more than 10 frames after the
\* restart before it, whatever label that frame got
RECURSIVE TopWindowBefore(_)
TopWindowBefore(i) ==
    IF i = 1 THEN -999
    ELSE LET before == TopWindowBefore(i - 1)
         IN  IF results[i - 1].is_arm_peak /\ FrameAt(i - 1) - before > 10
             THEN FrameAt(i - 1) ELSE before

\* last_bottom_frame before the session's i-th call, likewise
RECURSIVE BottomWindowBefore(_)
BottomWindowBefore(i) ==
    IF i = 1 THEN -999
    ELSE LET before == BottomWindowBefore(i - 1)
         IN  IF results[i - 1].is_spine_peak /\ FrameAt(i - 1) - before > 10
             THEN FrameAt(i - 1) ELSE before

\* C25: when a wrist-height maximum and a spine maximum above 50 are detected
\* on the same frame with both refractory gates open, the frame is labelled
\* "bottom" with confidence 0.9 and the top window restarts all the same: a
\* wrist peak within the next 10 frames is not labelled "top".
C25_SimultaneousPeaks ==
    PeakRun =>
        /\ self.last_top_frame = TopWindowBefore(Len(results) + 1)
        /\ self.last_bottom_frame = BottomWindowBefore(Len(results) + 1)
        /\ \A i \in Frames :
               (/\ results[i].is_arm_peak
                /\ results[i].is_spine_peak
                /\ FrameAt(i) - TopWindowBefore(i) > 10
                /\ FrameAt(i) - BottomWindowBefore(i) > 10)
               => /\ LabelAt(i) = "bottom"
                  /\ 10 * results[i].confidence = 9 * ConfidenceScale
                  /\ \A j \in Frames :
                         (/\ j > i
                          /\ FrameAt(j) - FrameAt(i) <= 10
                          /\ results[j].is_arm_peak)
                         => LabelAt(j) # "top"

\* C25 happens: both peaks on one frame, a wrist peak 10 frames later is
\* flagged and not labelled, and the session has no "top" at all
C25_TopSuppressedByBottom ==
    /\ PeakRun
    /\ \A k \in Frames : LabelAt(k) # "top"
    /\ \E i, j \in Frames :
          /\ i < j /\ FrameAt(j) - FrameAt(i) = 10
          /\ results[i].is_arm_peak /\ results[i].is_spine_peak
          /\ LabelAt(i) = "bottom"
          /\ results[j].is_arm_peak /\ LabelAt(j) # "top"

\* C26: the threshold algorithm keeps no state.  Its detector is, after any
\* number of detect() calls, as it was constructed; both peak flags are always
\* false; and each result is what a new detector returns for that frame alone.
C26_ThresholdStateless ==
    (pc = "pair" /\ fresh.algorithm = "threshold") =>
        /\ fresh = __init__("threshold")
        /\ \A i \in 1 .. Len(fresh_results) :
              /\ ~fresh_results[i].is_arm_peak
              /\ ~fresh_results[i].is_spine_peak
              /\ fresh_results[i]
                    = detect(__init__("threshold"), fresh_results[i].frame_index,
                             fresh_results[i].video_time,
                             fresh_results[i].angles).result

\* C26 happens: four threshold calls whose labels change both ways
C26_ThresholdBothWays ==
    /\ pc = "pair"
    /\ fresh.algorithm = "threshold"
    /\ fresh = __init__("threshold")
    /\ Len(fresh_results) = 4
    /\ fresh_results[1].detected_position = "bottom"
    /\ fresh_results[2].detected_position = "top"
    /\ fresh_results[3].detected_position = "top"
    /\ fresh_results[4].detected_position = "bottom"

\* What a detector with unbounded histories returns for the session's i-th
\* frame: the 3-sample tests, the gates and the slope read the whole series
UnboundedResult(i) ==
    LET is_arm_peak == ArmMaxBefore(i)
        is_spine_peak == SpineMaxBefore(i) /\ SpineAt(i - 1) > 50
        top == is_arm_peak /\ FrameAt(i) - TopWindowBefore(i) > 10
        bottom == is_spine_peak /\ FrameAt(i) - BottomWindowBefore(i) > 10
        slope == IF i < 2 THEN None
                 ELSE IF SpineAt(i) > SpineAt(i - 1) + 2 THEN "connect"
                 ELSE IF SpineAt(i) < SpineAt(i - 1) - 2 THEN "release"
                 ELSE None
        position == IF bottom THEN "bottom" ELSE IF top THEN "top" ELSE slope
        confidence == IF bottom \/ top THEN (ConfidenceScale * 9) \div 10
                      ELSE IF position # None THEN ConfidenceScale \div 2
                      ELSE 0
    IN  DetectionResult(FrameAt(i), results[i].video_time, position, confidence,
                        results[i].angles, is_arm_peak, is_spine_peak)

\* C27: cutting the histories to 10 samples never changes what detect()
\* returns: every result is the one a detector with unbounded histories gives,
\* and after every call the stored previous spine value is the last element
\* of the spine history.
C27_TruncationInvisible ==
    PeakRun =>
        /\ \A i \in Frames : results[i] = UnboundedResult(i)
        /\ calls > 0 =>
               /\ self.spine_angle_history # <<>>
               /\ self.prev_spine_angle
                     = self.spine_angle_history[Len(self.spine_angle_history)]

\* C27 happens: the histories have been cut and the frame after the cut is a
\* peak found across it
C27_PeakAfterCut ==
    /\ PeakRun
    /\ calls = 11
    /\ Len(self.spine_angle_history) = 10
    /\ results[11].is_spine_peak
    /\ results[11] = UnboundedResult(11)

\* C28: the peak algorithm warms up.  The first detect() call after
\* construction or reset() returns no label, confidence 0 and both flags
\* false, whatever the frame holds; neither flag and neither "top" nor
\* "bottom" appears before the third call, and "connect" and "release" do not
\* appear before the second.
C28_WarmUp ==
    PeakRun =>
        \A i \in Frames :
            /\ i = 1 => /\ LabelAt(i) = None
                        /\ results[i].confidence = 0
            /\ i <= 2 => /\ ~results[i].is_arm_peak
                         /\ ~results[i].is_spine_peak
                         /\ LabelAt(i) \notin {"top", "bottom"}

\* C28 happens: after a reset() that followed three or more calls, a first
\* frame with a spine angle far from 0 got no label and the second "connect"
C28_WarmUpAfterReset ==
    /\ PeakRun
    /\ reset_after >= 3
    /\ Len(results) = 2
    /\ SpineAt(1) > 2
    /\ LabelAt(1) = None
    /\ results[1].confidence = 0
    /\ LabelAt(2) = "connect"

\* C29: the evaluator's counts add up.  True plus false positives is the
\* number of distinct frames detected with the position, false negatives are
\* at most the distinct annotated frames of the position, position_errors has
\* one entry per false positive and false negative, total_frames is the number
\* of results, and there is no true positive exactly when every annotated
\* frame of the position is a false negative.
C29_CountsAddUp ==
    pc = "evaluated" =>
        LET metrics == returned.metrics
            tp == metrics.true_positives
            fp == metrics.false_positives
            fn == metrics.false_negatives
        IN  /\ tp + fp = Cardinality(EvalDetected)
            /\ fn <= Cardinality(EvalAnnotated)
            /\ Len(metrics.position_errors) = fp + fn
            /\ metrics.total_frames = Len(args.results)
            /\ (tp = 0) <=> (fn = Cardinality(EvalAnnotated))

\* C29 happens: one frame detected twice and matching nothing, two annotated
\* frames both missed
C29_RepeatedDetectionAllMissed ==
    /\ pc = "evaluated"
    /\ Len(args.results) = 2
    /\ EvalDetected = {20}
    /\ EvalAnnotated = {9, 10}
    /\ returned.metrics.true_positives = 0
    /\ returned.metrics.false_positives = 1
    /\ returned.metrics.false_negatives = 2
    /\ Len(returned.metrics.position_errors) = 3
    /\ returned.metrics.total_frames = 2

\* The candidates a generate_annotations call returned
Candidates ==
    {returned.candidates.top[k] : k \in 1 .. Len(returned.candidates.top)}
    \cup {returned.candidates.bottom[k] :
            k \in 1 .. Len(returned.candidates.bottom)}

\* C30: every candidate of generate_annotations carries the frameIndex of
\* the posetrack frame whose video time it carries, however the frames of the
\* posetrack are numbered.
C30_CandidateNamesItsFrame ==
    (Returned("generate_annotations") /\ raised = None) =>
        \A c \in Candidates :
            \E k \in 1 .. Len(args.posetrack.frames) :
                /\ c.video_time = video_time_of(args.posetrack.frames[k])
                /\ c.frame_index = args.posetrack.frames[k]["frameIndex"]

====
